---- MODULE Spec2Model ----
(* A model of src/app.py: the Deribit transaction-log P&L pipeline.          *)
(* One run of the script body (lines 13-130) is a straight-line sequence of  *)
(* steps inside one try block; any exception jumps to the handler at         *)
(* line 129.  The uploaded file is the only input.                           *)
(*                                                                           *)
(* Amounts and prices are exact integers (settlement-asset minimal units):   *)
(* floating-point rounding is not modelled.  A cell of the CSV is a record   *)
(* with a kind field k: "num" (a number), "nan" (an empty cell, float NaN),  *)
(* "NA" (pandas.NA, produced only by replace(0, pd.NA)).  Every Date cell    *)
(* is either a parsable timestamp or an unparsable string (empty Date cells, *)
(* which pandas parses to NaT, are outside the inputs enumerated).           *)
EXTENDS Integers, Sequences, FiniteSets

VARIABLES upload, pc, columns, df, last_price, daily_ledger, monthly_stats,
          totals, out, err

vars == <<upload, pc, columns, df, last_price, daily_ledger, monthly_stats,
          totals, out, err>>

\* ------------------------------------------------------------------ bounds
MaxRows == 2

\* ------------------------------------------------------------------- cells
Num(n) == [k |-> "num", v |-> n]
NaN == [k |-> "nan", v |-> 0]
NA == [k |-> "NA", v |-> 0]
Missing(c) == c.k # "num"

TS(m, d, h) == [k |-> "ts", mo |-> m, day |-> d, tod |-> h]
BadDate == [k |-> "bad", mo |-> 0, day |-> 0, tod |-> 0]

Str(s) == [k |-> "str", s |-> s]
NoStr == [k |-> "nan", s |-> <<>>]

\* str.lower() on the characters that occur in the Type values enumerated
LowerChar(ch) ==
    CASE ch = "T" -> "t" [] ch = "R" -> "r" [] ch = "A" -> "a"
      [] ch = "N" -> "n" [] ch = "S" -> "s" [] ch = "F" -> "f"
      [] ch = "E" -> "e" [] ch = "D" -> "d" [] ch = "P" -> "p"
      [] ch = "O" -> "o" [] ch = "I" -> "i" [] ch = "W" -> "w"
      [] ch = "H" -> "h" [] ch = "L" -> "l"
      [] OTHER -> ch

Lower(s) == [i \in DOMAIN s |-> LowerChar(s[i])]

\* the literal list of line 30
ExcludedTypes ==
    { <<"t","r","a","n","s","f","e","r">>,
      <<"d","e","p","o","s","i","t">>,
      <<"w","i","t","h","d","r","a","w","a","l">> }

\* a filter that forgets .str.lower()
ExcludedCaseSensitive(cell) == cell.k = "str" /\ cell.s \in ExcludedTypes

\* one element of ~df['Type'].str.lower().isin([...]): NaN stays NaN under
\* .str.lower(), and NaN is not in the list
Excluded(cell) == cell.k = "str" /\ Lower(cell.s) \in ExcludedTypes

\* --------------------------------------------------------------- timestamps
TsLeq(a, b) ==
    \/ a.mo < b.mo
    \/ a.mo = b.mo /\ a.day < b.day
    \/ a.mo = b.mo /\ a.day = b.day /\ a.tod <= b.tod

TsLess(a, b) == TsLeq(a, b) /\ a # b

\* .dt.date: the calendar date without the time of day
DayOf(t) == [mo |-> t.mo, day |-> t.day]

DayLess(a, b) == a.mo < b.mo \/ (a.mo = b.mo /\ a.day < b.day)

\* ---------------------------------------------------------------- the input
AllColumns == {"Date", "Type", "Index Price", "Cash Flow", "Change", "Fee Charged"}

Trade == Str(<<"t","r","a","d","e">>)
Transfer == Str(<<"T","r","a","n","s","f","e","r">>)
Deposit == Str(<<"D","E","P","O","S","I","T">>)
Withdrawal == Str(<<"w","i","t","h","d","r","a","w","a","l">>)
Deposits == Str(<<"d","e","p","o","s","i","t","s">>)

Jan1 == TS(1, 1, 0)
Jan1Late == TS(1, 1, 1)
Jan2 == TS(1, 2, 0)
Mar1 == TS(3, 1, 0)

StdColumns == AllColumns \ {"Change"}

\* Families of uploaded files.  Each fixes the header sets and the cell values
\* a row may carry; Init draws a file from any of them.
Families ==
    { \* Type values against dates and amounts
      [cols |-> {StdColumns},
       dates |-> {Jan1, Jan2},
       types |-> {Trade, Transfer, Deposit, Withdrawal, NoStr},
       cash |-> {Num(10), Num(-4)},
       fees |-> {Num(1)},
       prices |-> {Num(100)}],
      \* Index Price values against time order and the filter
      [cols |-> {StdColumns},
       dates |-> {Jan1, Jan1Late, Jan2},
       types |-> {Trade, Deposit},
       cash |-> {Num(10)},
       fees |-> {Num(1)},
       prices |-> {NaN, Num(0), Num(100), Num(110)}],
      \* amounts and fees, present or empty, across days and months
      [cols |-> {StdColumns},
       dates |-> {Jan1, Jan2, Mar1},
       types |-> {Trade},
       cash |-> {NaN, Num(10), Num(-4)},
       fees |-> {NaN, Num(1)},
       prices |-> {Num(100)}],
      \* every set of headers
      [cols |-> SUBSET AllColumns,
       dates |-> {Jan1, BadDate},
       types |-> {Deposits, Deposit},
       cash |-> {Num(10)},
       fees |-> {Num(1)},
       prices |-> {Num(0), Num(100)}] }

RowsOf(fam, cs) ==
    { [c \in cs |->
         CASE c = "Date" -> d
           [] c = "Type" -> t
           [] c = "Index Price" -> p
           [] c = "Fee Charged" -> f
           [] c = "Cash Flow" -> g
           [] OTHER -> h] :
        d \in fam.dates, t \in fam.types, p \in fam.prices,
        f \in fam.fees, g \in fam.cash, h \in fam.cash }

SeqsUpTo(S, n) == UNION { [1..m -> S] : m \in 0..n }

NoTotals ==
    [total_net |-> 0, total_gross |-> 0, total_fees |-> 0,
     total_net_usd |-> Num(0), total_gross_usd |-> Num(0), total_fees_usd |-> Num(0)]

\* lines 13-20: a file has been uploaded, read and its header names stripped
Init ==
    /\ \E fam \in Families : \E cs \in fam.cols :
          \E rows \in SeqsUpTo(RowsOf(fam, cs), MaxRows) :
             /\ upload = [columns |-> cs, rows |-> rows]
             /\ columns = cs
             /\ df = rows
    /\ pc = "convert_date"
    /\ last_price = Num(0)
    /\ daily_ledger = <<>>
    /\ monthly_stats = <<>>
    /\ totals = NoTotals
    /\ out = <<>>
    /\ err = "none"

Raise(e) ==
    /\ pc' = "except"
    /\ err' = e

\* ------------------------------------------------------------ 2. Convert Date
WithDates(r) ==
    [c \in DOMAIN r \cup {"datetime", "Day"} |->
        CASE c = "datetime" -> r["Date"]
          [] c = "Day" -> DayOf(r["Date"])
          [] OTHER -> r[c]]

\* lines 23-25: pd.to_datetime(df['Date']) and the Day column
ConvertDate ==
    /\ pc = "convert_date"
    /\ IF "Date" \notin columns
         THEN Raise("KeyError") /\ UNCHANGED <<columns, df>>
       ELSE IF \E i \in DOMAIN df : df[i]["Date"].k = "bad"
         THEN Raise("ParserError") /\ UNCHANGED <<columns, df>>
       ELSE /\ df' = [i \in DOMAIN df |-> WithDates(df[i])]
            /\ columns' = columns \cup {"datetime", "Day"}
            /\ pc' = "sort_values"
            /\ UNCHANGED err
    /\ UNCHANGED <<upload, last_price, daily_ledger, monthly_stats, totals, out>>

\* the orders sort_values(by='datetime') may produce: ascending by datetime,
\* rows with equal datetime in any order (the default kind is not stable)
SortedPerms(rows) ==
    { p \in [DOMAIN rows -> DOMAIN rows] :
        /\ \A i, j \in DOMAIN rows : i # j => p[i] # p[j]
        /\ \A i, j \in DOMAIN rows :
              i < j => TsLeq(rows[p[i]]["datetime"], rows[p[j]]["datetime"]) }

\* line 26
SortValues ==
    /\ pc = "sort_values"
    /\ \E p \in SortedPerms(df) : df' = [i \in DOMAIN df |-> df[p[i]]]
    /\ pc' = "filter"
    /\ UNCHANGED <<upload, columns, last_price, daily_ledger, monthly_stats,
                   totals, out, err>>

\* ------------------------------------------------------ 3. Filter out Transfers
RECURSIVE SelectKept(_)
SelectKept(rows) ==
    IF rows = <<>> THEN <<>>
    ELSE IF Excluded(Head(rows)["Type"]) THEN SelectKept(Tail(rows))
    ELSE <<Head(rows)>> \o SelectKept(Tail(rows))

\* lines 29-30.  The .str accessor exists only on a column holding strings: a
\* Type column whose every cell is empty is read as float64 and .str raises.
FilterTransfers ==
    /\ pc = "filter"
    /\ IF "Type" \notin columns
         THEN pc' = "latest_price" /\ UNCHANGED <<df, err>>
       ELSE IF df # <<>> /\ \A i \in DOMAIN df : df[i]["Type"].k = "nan"
         THEN Raise("AttributeError") /\ UNCHANGED df
       ELSE /\ df' = SelectKept(df)
            /\ pc' = "latest_price"
            /\ UNCHANGED err
    /\ UNCHANGED <<upload, columns, last_price, daily_ledger, monthly_stats,
                   totals, out>>

\* ------------------------------------------------------ 4. Get the latest price
\* a price step that forgets .replace(0, pd.NA)
ReplaceZeroKeeps(c) == c

\* .replace(0, pd.NA)
ReplaceZero(c) == IF c.k = "num" /\ c.v = 0 THEN NA ELSE c

\* element i of .ffill(): a missing element takes the last non-missing value
\* before it; with none before it, it stays as it is
RECURSIVE FFillAt(_, _)
FFillAt(s, i) ==
    IF ~Missing(s[i]) THEN s[i]
    ELSE IF i = 1 THEN s[i]
    ELSE LET prev == FFillAt(s, i - 1)
         IN IF Missing(prev) THEN s[i] ELSE prev

LastPriceOf(rows) ==
    LET s == [i \in DOMAIN rows |-> ReplaceZero(rows[i]["Index Price"])]
    IN FFillAt(s, Len(s))

\* lines 33-38
LatestPrice ==
    /\ pc = "latest_price"
    /\ IF "Index Price" \in columns
         THEN IF df = <<>>
                THEN Raise("IndexError") /\ UNCHANGED <<last_price, out>>
                ELSE /\ last_price' = LastPriceOf(df)
                     /\ pc' = "raw_metrics"
                     /\ UNCHANGED <<out, err>>
         ELSE /\ last_price' = Num(0)
              /\ out' = Append(out, "warning")
              /\ pc' = "raw_metrics"
              /\ UNCHANGED err
    /\ UNCHANGED <<upload, columns, df, daily_ledger, monthly_stats, totals>>

\* ---------------------------------------------------- 5. Calculate raw metrics
\* float subtraction: NaN if either operand is NaN
Sub(a, b) == IF Missing(a) \/ Missing(b) THEN NaN ELSE Num(a.v - b.v)

WithMetrics(r) ==
    [c \in DOMAIN r \cup {"Gross P&L", "Fees", "Net P&L"} |->
        CASE c = "Gross P&L" -> r["Cash Flow"]
          [] c = "Fees" -> r["Fee Charged"]
          [] c = "Net P&L" -> Sub(r["Cash Flow"], r["Fee Charged"])
          [] OTHER -> r[c]]

\* lines 41-43
RawMetrics ==
    /\ pc = "raw_metrics"
    /\ IF "Cash Flow" \notin columns \/ "Fee Charged" \notin columns
         THEN Raise("KeyError") /\ UNCHANGED <<columns, df>>
         ELSE /\ df' = [i \in DOMAIN df |-> WithMetrics(df[i])]
              /\ columns' = columns \cup {"Gross P&L", "Fees", "Net P&L"}
              /\ pc' = "group_by_day"
              /\ UNCHANGED err
    /\ UNCHANGED <<upload, last_price, daily_ledger, monthly_stats, totals, out>>

\* ----------------------------------------------------------- 6. Group by day
\* Series.sum() of one column over a group: missing values are skipped, and
\* the sum of no values is 0
RECURSIVE SumCol(_, _)
SumCol(rows, col) ==
    IF rows = <<>> THEN 0
    ELSE (IF Missing(Head(rows)[col]) THEN 0 ELSE Head(rows)[col].v)
         + SumCol(Tail(rows), col)

RECURSIVE SelectDay(_, _)
SelectDay(rows, d) ==
    IF rows = <<>> THEN <<>>
    ELSE IF Head(rows)["Day"] = d THEN <<Head(rows)>> \o SelectDay(Tail(rows), d)
    ELSE SelectDay(Tail(rows), d)

\* the group keys in ascending order (groupby sorts its keys)
RECURSIVE SortDays(_)
SortDays(S) ==
    IF S = {} THEN <<>>
    ELSE LET m == CHOOSE x \in S : \A y \in S : y = x \/ DayLess(x, y)
         IN <<m>> \o SortDays(S \ {m})

\* scalar * last_price: a missing price makes the product missing
Mul(x, p) == IF p.k = "num" THEN Num(x * p.v) ELSE p

\* a cumulative column that does not accumulate
CumSumNoCarry(sums, col, i) == IF i = 0 THEN 0 ELSE sums[i][col]

\* .cumsum() at position i of a column of bucket sums
RECURSIVE CumSum(_, _, _)
CumSum(sums, col, i) ==
    IF i = 0 THEN 0 ELSE CumSum(sums, col, i - 1) + sums[i][col]

\* line 46: one row per Day that has a record
DailySums(rows) ==
    LET days == SortDays({ rows[i]["Day"] : i \in DOMAIN rows })
    IN [i \in DOMAIN days |->
          LET g == SelectDay(rows, days[i])
          IN [Day |-> days[i],
              Gross |-> SumCol(g, "Gross P&L"),
              Fees |-> SumCol(g, "Fees"),
              Net |-> SumCol(g, "Net P&L")]]

\* lines 49-55: the cumulative and the USD columns
DailyLedger(rows, price) ==
    LET sums == DailySums(rows)
    IN [i \in DOMAIN sums |->
          [Day |-> sums[i].Day,
           Gross |-> sums[i].Gross,
           Fees |-> sums[i].Fees,
           Net |-> sums[i].Net,
           CumulativeNet |-> CumSum(sums, "Net", i),
           CumulativeGross |-> CumSum(sums, "Gross", i),
           NetUsd |-> Mul(sums[i].Net, price),
           FeesUsd |-> Mul(sums[i].Fees, price),
           GrossUsd |-> Mul(sums[i].Gross, price)]]

GroupByDay ==
    /\ pc = "group_by_day"
    /\ daily_ledger' = DailyLedger(df, last_price)
    /\ pc' = "group_by_month"
    /\ UNCHANGED <<upload, columns, df, last_price, monthly_stats, totals, out, err>>

\* --------------------------------------------------------- 7. Group by month
\* a monthly grouping keyed on the day of the month
RECURSIVE SelectMonthByDay(_, _)
SelectMonthByDay(rows, m) ==
    IF rows = <<>> THEN <<>>
    ELSE IF Head(rows)["datetime"].day = m
           THEN <<Head(rows)>> \o SelectMonthByDay(Tail(rows), m)
    ELSE SelectMonthByDay(Tail(rows), m)

RECURSIVE SelectMonth(_, _)
SelectMonth(rows, m) ==
    IF rows = <<>> THEN <<>>
    ELSE IF Head(rows)["datetime"].mo = m
           THEN <<Head(rows)>> \o SelectMonth(Tail(rows), m)
    ELSE SelectMonth(Tail(rows), m)

\* lines 58-63: resample('M') makes one bin for every calendar month from the
\* month of the earliest record to the month of the latest, empty ones too
MonthlyStats(rows, price) ==
    IF rows = <<>> THEN <<>>
    ELSE LET mos == { rows[i]["datetime"].mo : i \in DOMAIN rows }
             lo == CHOOSE x \in mos : \A y \in mos : x <= y
             hi == CHOOSE x \in mos : \A y \in mos : y <= x
         IN [i \in 1..(hi - lo + 1) |->
               LET g == SelectMonth(rows, lo + i - 1)
                   gross == SumCol(g, "Gross P&L")
                   fees == SumCol(g, "Fees")
                   net == SumCol(g, "Net P&L")
               IN [Month |-> lo + i - 1,
                   Gross |-> gross, Fees |-> fees, Net |-> net,
                   NetUsd |-> Mul(net, price),
                   FeesUsd |-> Mul(fees, price),
                   GrossUsd |-> Mul(gross, price)]]

GroupByMonth ==
    /\ pc = "group_by_month"
    /\ monthly_stats' = MonthlyStats(df, last_price)
    /\ pc' = "key_totals"
    /\ UNCHANGED <<upload, columns, df, last_price, daily_ledger, totals, out, err>>

\* ------------------------------------------------------------- key totals
RECURSIVE SumField(_, _)
SumField(ledger, col) ==
    IF ledger = <<>> THEN 0 ELSE Head(ledger)[col] + SumField(Tail(ledger), col)

\* lines 71-77
KeyTotals ==
    /\ pc = "key_totals"
    /\ LET net == SumField(daily_ledger, "Net")
           gross == SumField(daily_ledger, "Gross")
           fees == SumField(daily_ledger, "Fees")
       IN totals' = [total_net |-> net, total_gross |-> gross, total_fees |-> fees,
                     total_net_usd |-> Mul(net, last_price),
                     total_gross_usd |-> Mul(gross, last_price),
                     total_fees_usd |-> Mul(fees, last_price)]
    /\ pc' = "summary"
    /\ UNCHANGED <<upload, columns, df, last_price, daily_ledger, monthly_stats,
                   out, err>>

\* ----------------------------------------------------------------- rendering
\* lines 80-88.  f"{last_price:,.2f}" on pandas.NA either raises TypeError or
\* renders "<NA>", depending on the pandas release; both are allowed here.
SummaryMetrics ==
    /\ pc = "summary"
    /\ \/ /\ last_price.k = "NA"
          /\ Raise("TypeError")
          /\ UNCHANGED out
       \/ /\ out' = Append(out, "summary")
          /\ pc' = "equity_curve"
          /\ UNCHANGED err
    /\ UNCHANGED <<upload, columns, df, last_price, daily_ledger, monthly_stats,
                   totals>>

\* lines 91-100
EquityCurve ==
    /\ pc = "equity_curve"
    /\ out' = Append(out, "chart")
    /\ pc' = "tables"
    /\ UNCHANGED <<upload, columns, df, last_price, daily_ledger, monthly_stats,
                   totals, err>>

\* lines 103-127
TablesSection ==
    /\ pc = "tables"
    /\ out' = out \o <<"monthly_table", "daily_table">>
    /\ pc' = "done"
    /\ UNCHANGED <<upload, columns, df, last_price, daily_ledger, monthly_stats,
                   totals, err>>

\* lines 129-130
ExceptHandler ==
    /\ pc = "except"
    /\ out' = Append(out, "error")
    /\ pc' = "done"
    /\ UNCHANGED <<upload, columns, df, last_price, daily_ledger, monthly_stats,
                   totals, err>>

Next ==
    \/ ConvertDate
    \/ SortValues
    \/ FilterTransfers
    \/ LatestPrice
    \/ RawMetrics
    \/ GroupByDay
    \/ GroupByMonth
    \/ KeyTotals
    \/ SummaryMetrics
    \/ EquityCurve
    \/ TablesSection
    \/ ExceptHandler

Spec == Init /\ [][Next]_vars

TypeOK ==
    /\ pc \in {"convert_date", "sort_values", "filter", "latest_price",
               "raw_metrics", "group_by_day", "group_by_month", "key_totals",
               "summary", "equity_curve", "tables", "except", "done"}
    /\ last_price.k \in {"num", "nan", "NA"}

\* ====================================================================
\* Properties.  They are stated against the uploaded file (upload), which
\* no step changes, with their own reading of the file's cells.
\* ====================================================================
Completed == pc = "done" /\ err = "none"
Finished == pc = "done"
HasCol(c) == c \in upload.columns
InRows == DOMAIN upload.rows
Cell(i, c) == upload.rows[i][c]

UpperChar(ch) ==
    CASE ch = "t" -> "T" [] ch = "r" -> "R" [] ch = "a" -> "A"
      [] ch = "n" -> "N" [] ch = "s" -> "S" [] ch = "f" -> "F"
      [] ch = "e" -> "E" [] ch = "d" -> "D" [] ch = "p" -> "P"
      [] ch = "o" -> "O" [] ch = "i" -> "I" [] ch = "w" -> "W"
      [] ch = "h" -> "H" [] ch = "l" -> "L"
      [] OTHER -> ch

SameIgnoringCase(a, b) ==
    Len(a) = Len(b) /\ \A i \in 1..Len(a) : UpperChar(a[i]) = UpperChar(b[i])

TransferWords ==
    { <<"T","R","A","N","S","F","E","R">>,
      <<"D","E","P","O","S","I","T">>,
      <<"W","I","T","H","D","R","A","W","A","L">> }

IsTransferLike(cell) ==
    cell.k = "str" /\ \E w \in TransferWords : SameIgnoringCase(cell.s, w)

\* the rows of the file that are not transfers, deposits or withdrawals
Survives(i) == ~HasCol("Type") \/ ~IsTransferLike(Cell(i, "Type"))
Survivors == { i \in InRows : Survives(i) }

\* a price a record really carries: a number other than zero
UsablePrice(i) == Cell(i, "Index Price").k = "num" /\ Cell(i, "Index Price").v # 0

\* the file has everything the pipeline needs apart from the optional columns
DatesOk == HasCol("Date") /\ \A i \in InRows : Cell(i, "Date").k = "ts"
TypeOk == HasCol("Type") => (InRows = {} \/ \E i \in InRows : Cell(i, "Type").k = "str")
AmountsOk == HasCol("Cash Flow") /\ HasCol("Fee Charged")
WellFormed == DatesOk /\ TypeOk /\ AmountsOk

\* what row i of the file contributes to a summed column
Contribution(i, col) ==
    LET g == Cell(i, "Cash Flow")
        f == Cell(i, "Fee Charged")
    IN CASE col = "Gross" -> (IF g.k = "num" THEN g.v ELSE 0)
         [] col = "Fees" -> (IF f.k = "num" THEN f.v ELSE 0)
         [] OTHER -> (IF g.k = "num" /\ f.k = "num" THEN g.v - f.v ELSE 0)

RECURSIVE SumOver(_, _)
SumOver(S, col) ==
    IF S = {} THEN 0
    ELSE LET i == CHOOSE x \in S : TRUE
         IN Contribution(i, col) + SumOver(S \ {i}, col)

SumCols == {"Gross", "Fees", "Net"}
OnDay(d) == { i \in Survivors : DayOf(Cell(i, "Date")) = d }
InMonth(m) == { i \in Survivors : Cell(i, "Date").mo = m }
Original(r) == [c \in upload.columns |-> r[c]]

\* C1: with a Type column, every daily sum, monthly sum and total of a
\* completed run is the sum over the records that are not transfers, deposits
\* or withdrawals (compared case-insensitively) falling in that bucket, the
\* price reference is a price of such a record, and exactly those records are
\* kept, in time order.
FilterExcludesTransfers ==
    (Completed /\ HasCol("Type")) =>
        /\ \A i \in DOMAIN daily_ledger : \A col \in SumCols :
              daily_ledger[i][col] = SumOver(OnDay(daily_ledger[i].Day), col)
        /\ { daily_ledger[i].Day : i \in DOMAIN daily_ledger }
              = { DayOf(Cell(i, "Date")) : i \in Survivors }
        /\ \A i \in DOMAIN monthly_stats : \A col \in SumCols :
              monthly_stats[i][col] = SumOver(InMonth(monthly_stats[i].Month), col)
        /\ { Cell(i, "Date").mo : i \in Survivors }
              \subseteq { monthly_stats[i].Month : i \in DOMAIN monthly_stats }
        /\ totals.total_net = SumOver(Survivors, "Net")
        /\ totals.total_gross = SumOver(Survivors, "Gross")
        /\ totals.total_fees = SumOver(Survivors, "Fees")
        /\ (HasCol("Index Price") /\ last_price.k = "num") =>
              \E i \in Survivors : Cell(i, "Index Price") = last_price
        /\ Len(df) = Cardinality(Survivors)
        /\ \A i \in Survivors :
              Cardinality({ j \in DOMAIN df : Original(df[j]) = upload.rows[i] })
                = Cardinality({ j \in Survivors : upload.rows[j] = upload.rows[i] })
        /\ \A i, j \in DOMAIN df :
              i < j => TsLeq(df[i]["datetime"], df[j]["datetime"])

\* a completed run whose file holds a deposit in upper case on the same day as
\* a record that is kept
FilterWitness ==
    /\ Completed /\ HasCol("Type")
    /\ \E i, j \in InRows :
          /\ Cell(i, "Type") = Deposit
          /\ Survives(j)
          /\ DayOf(Cell(i, "Date")) = DayOf(Cell(j, "Date"))
    /\ Len(daily_ledger) = 1

PriceResolved ==
    \/ pc \in {"raw_metrics", "group_by_day", "group_by_month", "key_totals",
               "summary", "equity_curve", "tables"}
    \/ Completed

\* C2: when some record that survives the filter carries a non-zero Index
\* Price, the price reference is the Index Price of a surviving record with a
\* non-zero price that no other such record follows in time.
LastPriceIsLatestNonZero ==
    (PriceResolved /\ HasCol("Index Price")
       /\ \E i \in Survivors : UsablePrice(i)) =>
        \E i \in Survivors :
            /\ UsablePrice(i)
            /\ last_price = Cell(i, "Index Price")
            /\ \A j \in Survivors :
                  UsablePrice(j) => ~TsLess(Cell(i, "Date"), Cell(j, "Date"))

\* a completed run where the latest surviving record has price zero, an
\* earlier one a real price
LastPriceWitness ==
    /\ Completed /\ HasCol("Index Price")
    /\ \E i, j \in Survivors :
          /\ UsablePrice(i)
          /\ Cell(j, "Index Price") = Num(0)
          /\ TsLess(Cell(i, "Date"), Cell(j, "Date"))
    /\ last_price.k = "num"

FiatFields ==
    { totals.total_net_usd, totals.total_gross_usd, totals.total_fees_usd }
      \cup { daily_ledger[i][f] : i \in DOMAIN daily_ledger,
                                  f \in {"NetUsd", "FeesUsd", "GrossUsd"} }
      \cup { monthly_stats[i][f] : i \in DOMAIN monthly_stats,
                                   f \in {"NetUsd", "FeesUsd", "GrossUsd"} }

NoUsablePrice ==
    \/ ~HasCol("Index Price")
    \/ \A i \in Survivors : Cell(i, "Index Price") = Num(0)

\* C3: on a file that is otherwise well formed and keeps a record after the
\* filter, if the Index Price column is absent or every surviving Index Price
\* is zero, the run completes with the price reference exactly 0 and every
\* fiat field exactly 0.
ZeroPriceGivesZeroFiat ==
    (Finished /\ WellFormed /\ Survivors # {} /\ NoUsablePrice) =>
        /\ err = "none"
        /\ last_price = Num(0)
        /\ \A x \in FiatFields : x = Num(0)

AllFiltered == HasCol("Type") /\ InRows # {} /\ Survivors = {}

\* C4: on a file that is otherwise well formed, when the filter removes every
\* record the run ends without an error, with an empty daily ledger, an empty
\* monthly ledger and all totals zero, with or without an Index Price column.
EmptyResultIsNotAnError ==
    (Finished /\ WellFormed /\ AllFiltered) =>
        /\ err = "none"
        /\ daily_ledger = <<>>
        /\ monthly_stats = <<>>
        /\ totals.total_net = 0 /\ totals.total_gross = 0 /\ totals.total_fees = 0

\* C5: a run that reports an error has emitted nothing else: no warning,
\* summary, chart or table comes before the error.
ErrorIsTheOnlyOutput ==
    (\E i \in DOMAIN out : out[i] = "error") => out = <<"error">>

\* C6: on a completed run that kept at least one record, the daily sums, the
\* monthly sums and the totals agree, for net, gross and fees.
DailyMonthlyTotalsAgree ==
    (Completed /\ df # <<>>) =>
        /\ SumField(daily_ledger, "Net") = SumField(monthly_stats, "Net")
        /\ SumField(monthly_stats, "Net") = totals.total_net
        /\ SumField(daily_ledger, "Gross") = SumField(monthly_stats, "Gross")
        /\ SumField(monthly_stats, "Gross") = totals.total_gross
        /\ SumField(daily_ledger, "Fees") = SumField(monthly_stats, "Fees")
        /\ SumField(monthly_stats, "Fees") = totals.total_fees

\* a completed run whose monthly ledger has a month with no record between
\* the first and the last, and a non-zero total
AgreeWitness ==
    /\ Completed
    /\ \E i \in DOMAIN monthly_stats :
          /\ \A j \in DOMAIN df : df[j]["datetime"].mo # monthly_stats[i].Month
          /\ monthly_stats[i].Net = 0
    /\ totals.total_net # 0

RECURSIVE PrefixSum(_, _, _)
PrefixSum(ledger, col, n) ==
    IF n = 0 THEN 0 ELSE ledger[n][col] + PrefixSum(ledger, col, n - 1)

\* C7: on a completed run the daily ledger is in ascending date order, each
\* bucket's cumulative net and gross are the sums of the bucket sums up to and
\* including it, and the last bucket's cumulative values are the totals.
CumulativeMatchesTotals ==
    Completed =>
        /\ \A i, j \in DOMAIN daily_ledger :
              i < j => DayLess(daily_ledger[i].Day, daily_ledger[j].Day)
        /\ \A i \in DOMAIN daily_ledger :
              /\ daily_ledger[i].CumulativeNet = PrefixSum(daily_ledger, "Net", i)
              /\ daily_ledger[i].CumulativeGross = PrefixSum(daily_ledger, "Gross", i)
        /\ daily_ledger # <<>> =>
              /\ daily_ledger[Len(daily_ledger)].CumulativeNet = totals.total_net
              /\ daily_ledger[Len(daily_ledger)].CumulativeGross = totals.total_gross

\* a completed run with two daily buckets, the first of them non-zero, read
\* from a file whose rows are not in date order
CumulativeWitness ==
    /\ Completed
    /\ Len(daily_ledger) = 2
    /\ daily_ledger[1].Net # 0 /\ daily_ledger[2].Net # 0
    /\ Len(upload.rows) = 2
    /\ TsLess(Cell(2, "Date"), Cell(1, "Date"))

ChangeVariant ==
    /\ HasCol("Change") /\ ~HasCol("Cash Flow")
    /\ DatesOk /\ TypeOk /\ HasCol("Fee Charged") /\ HasCol("Index Price")
    /\ Survivors # {}

RECURSIVE SumChange(_)
SumChange(S) ==
    IF S = {} THEN 0
    ELSE LET i == CHOOSE x \in S : TRUE
         IN (IF Cell(i, "Change").k = "num" THEN Cell(i, "Change").v ELSE 0)
            + SumChange(S \ {i})

\* C8: a file whose gross amounts are in a Change column, with no Cash Flow
\* column, is processed without an error, the Change values taken as the gross
\* amounts.
ChangeColumnAccepted ==
    (Finished /\ ChangeVariant) =>
        /\ err = "none"
        /\ totals.total_gross = SumChange(Survivors)

Degraded ==
    \/ ~HasCol("Type")
    \/ ~HasCol("Index Price")
    \/ last_price.k # "num"
    \/ last_price.v = 0

\* C9: a report completed in a degraded condition (no Type column so the
\* filter was skipped, no Index Price column, or no usable price) comes with a
\* warning.
DegradedRunsWarn ==
    (Completed /\ Degraded) => \E i \in DOMAIN out : out[i] = "warning"

\* C10: on a completed run every daily bucket has net = gross - fees, also
\* when a record's Cash Flow or Fee Charged cell is empty.
NetIsGrossMinusFees ==
    Completed =>
        \A i \in DOMAIN daily_ledger :
            daily_ledger[i].Net = daily_ledger[i].Gross - daily_ledger[i].Fees

====
